---- MODULE Spec2Model ----
(***************************************************************************)
(* A model of src/App.tsx: the Ellipsis component (overflow measurement,   *)
(* ResizeObserver / window listener life cycle, conditional Tooltip) and   *)
(* the virtualized table body (spacer rows around the virtual window).     *)
(*                                                                         *)
(* Widths are measured in glyph units: a text of n characters has an       *)
(* intrinsic width of n, and the text element's box is boxWidth wide.      *)
(***************************************************************************)
EXTENDS Integers, Sequences, FiniteSets, TLC

\* ------------------------------------------------------------- bounds
MaxW == 2
MaxLen == 2
MaxRows == 5
MaxPage == 2

\* ---------------------------------------------------------- constants
EstimateSize == 53

Chars == {"a", "b"}
Texts == UNION {[1..n -> Chars] : n \in 0..MaxLen}
Widths == 0..MaxW
ColumnWidths == 1..MaxW
Null == 0

Max(a, b) == IF a >= b THEN a ELSE b

VARIABLES
    \* --- Ellipsis instance
    status,         \* "mounted" | "unmounting" (DOM removed, cleanup pending) | "removed"
    children,       \* props.children as of the last render
    columnWidth,    \* props.columnWidth as of the last render
    isOverflowing,  \* useState value as of the last render
    queued,         \* <<>> or <<v>>: a setIsOverflowing(v) not yet rendered
    textRef,        \* textRef.current: an element id, or Null
    dom,            \* committed output: [elem, tooltip, label, text]
    observers,      \* live ResizeObservers, oldest first: [target, last reported size]
    listeners,      \* number of live window 'resize' listeners
    effectLive,     \* an effect has run and its cleanup has not
    effectPending,  \* the passive effect is scheduled (mount, or deps changed)
    boxWidth,       \* layout: the width of the text element's box
    resizeEvent,    \* a window 'resize' event is waiting to be dispatched
    measured,       \* <<>> or <<scrollWidth, clientWidth>> read by the last measurement
    \* --- table body
    rows,           \* table.getRowModel().rows: the current page's row ids
    virtualRows,    \* rowVirtualizer.getVirtualItems()
    totalSize,      \* rowVirtualizer.getTotalSize()
    paddingTop,
    paddingBottom,
    tbody           \* the rendered <tr> list

evars == <<status, children, columnWidth, isOverflowing, queued, textRef, dom,
           observers, listeners, effectLive, effectPending, boxWidth,
           resizeEvent, measured>>
vvars == <<rows, virtualRows, totalSize, paddingTop, paddingBottom, tbody>>
vars == <<evars, vvars>>

\* ===================================================== Ellipsis: layout

\* An element has a layout box only while it is the one attached to the document.
Attached(e) == e # Null /\ e = dom.elem

ClientWidth(e) == IF Attached(e) THEN boxWidth ELSE 0

\* scrollWidth is never less than clientWidth; nowrap text contributes its full width.
ScrollWidth(e) == IF Attached(e) THEN Max(Len(dom.text), boxWidth) ELSE 0

\* The div is one line high when it holds text, and has no height when empty.
ClientHeight(e) == IF Attached(e) /\ Len(dom.text) > 0 THEN 1 ELSE 0

\* The content-box size a ResizeObserver compares with the size it reported last.
BoxSize(e) == <<ClientWidth(e), ClientHeight(e)>>

\* ============================================== Ellipsis: checkOverflow

\* faulty variant: a non-strict comparison
IsOverflowGe(sw, cw) == sw >= cw

IsOverflow(sw, cw) == sw > cw

\* React drops an update that equals the current state when nothing is queued.
setIsOverflowing(v) ==
    queued' = IF queued = <<>> /\ v = isOverflowing THEN <<>> ELSE <<v>>

checkOverflow ==
    IF textRef # Null
    THEN /\ setIsOverflowing(IsOverflow(ScrollWidth(textRef), ClientWidth(textRef)))
         /\ measured' = <<ScrollWidth(textRef), ClientWidth(textRef)>>
    ELSE UNCHANGED <<queued, measured>>

\* ===================================================== Ellipsis: effect

\* faulty variant: columnWidth missing from the dependency list
DepsChangedChildrenOnly(oldChildren, oldWidth, newChildren, newWidth) ==
    oldChildren # newChildren

DepsChanged(oldChildren, oldWidth, newChildren, newWidth) ==
    oldChildren # newChildren \/ oldWidth # newWidth

\* faulty variant: the cleanup does not disconnect the observer
CleanupObserversLeak(obs) == obs

\* resizeObserver.disconnect() of the effect that ran last
CleanupObservers(obs) == IF Len(obs) = 0 THEN obs ELSE SubSeq(obs, 1, Len(obs) - 1)

\* window.removeEventListener('resize', checkOverflow) of the effect that ran last
CleanupListeners(n) == IF n = 0 THEN 0 ELSE n - 1

\* a new observation starts from a last reported size of 0 x 0
Observe(obs, e) == Append(obs, [target |-> e, last |-> <<0, 0>>])

\* The passive effect: the previous run's cleanup, then the body.
RunEffect ==
    /\ status = "mounted"
    /\ effectPending
    /\ checkOverflow
    /\ LET obs0 == IF effectLive THEN CleanupObservers(observers) ELSE observers
           lis0 == IF effectLive THEN CleanupListeners(listeners) ELSE listeners
       IN /\ observers' = Observe(obs0, textRef)
          /\ listeners' = lis0 + 1
    /\ effectLive' = TRUE
    /\ effectPending' = FALSE
    /\ UNCHANGED <<status, children, columnWidth, isOverflowing, textRef, dom,
                   boxWidth, resizeEvent>>
    /\ UNCHANGED vvars

\* ===================================================== Ellipsis: render

\* faulty variant: the Tooltip is rendered whatever the state
RenderAlwaysTooltip(overflowing, text) ==
    [tooltip |-> TRUE, label |-> <<text>>, text |-> text]

\* the returned tree: the bare div, or the div inside <Tooltip label={children}>
Render(overflowing, text) ==
    [tooltip |-> overflowing,
     label   |-> IF overflowing THEN <<text>> ELSE <<>>,
     text    |-> text]

InUse == {dom.elem} \cup {observers[i].target : i \in 1..Len(observers)}

FreshElem == CHOOSE e \in 1..(Len(observers) + 2) :
                 /\ e \notin InUse
                 /\ \A f \in 1..(e - 1) : f \in InUse

\* A render of the instance followed by its commit.  A change of the root
\* element type (div <-> Tooltip) unmounts the old div and mounts a new one.
Commit(text, width) ==
    LET state == IF queued # <<>> THEN queued[1] ELSE isOverflowing
        out   == Render(state, text)
        elem  == IF out.tooltip = dom.tooltip THEN dom.elem ELSE FreshElem
    IN /\ isOverflowing' = state
       /\ queued' = <<>>
       /\ children' = text
       /\ columnWidth' = width
       /\ dom' = [elem |-> elem, tooltip |-> out.tooltip,
                  label |-> out.label, text |-> out.text]
       /\ textRef' = elem
       /\ effectPending' = DepsChanged(children, columnWidth, text, width)

\* The parent re-renders the cell with another text.
TextChange(text) ==
    /\ status = "mounted"
    /\ ~effectPending
    /\ text # children
    /\ Commit(text, columnWidth)
    /\ UNCHANGED <<status, observers, listeners, effectLive, boxWidth,
                   resizeEvent, measured>>
    /\ UNCHANGED vvars

\* A column drag-resize: the columnWidth prop changes and the box follows the layout.
ColumnResize(width, box) ==
    /\ status = "mounted"
    /\ ~effectPending
    /\ width # columnWidth
    /\ Commit(children, width)
    /\ boxWidth' = box
    /\ UNCHANGED <<status, observers, listeners, effectLive, resizeEvent, measured>>
    /\ UNCHANGED vvars

\* The re-render that a queued setIsOverflowing schedules.
StateRender ==
    /\ status = "mounted"
    /\ ~effectPending
    /\ queued # <<>>
    /\ Commit(children, columnWidth)
    /\ UNCHANGED <<status, observers, listeners, effectLive, boxWidth,
                   resizeEvent, measured>>
    /\ UNCHANGED vvars

\* ============================================ Ellipsis: resize sources

\* The window is resized: the layout changes and a 'resize' event is queued.
WindowResize(box) ==
    /\ status # "removed"
    /\ boxWidth' = box
    /\ resizeEvent' = TRUE
    /\ UNCHANGED <<status, children, columnWidth, isOverflowing, queued, textRef,
                   dom, observers, listeners, effectLive, effectPending, measured>>
    /\ UNCHANGED vvars

\* The 'resize' event reaches the registered listener, if any.
DispatchResize ==
    /\ resizeEvent
    /\ resizeEvent' = FALSE
    /\ IF listeners > 0 THEN checkOverflow ELSE UNCHANGED <<queued, measured>>
    /\ UNCHANGED <<status, children, columnWidth, isOverflowing, textRef, dom,
                   observers, listeners, effectLive, effectPending, boxWidth>>
    /\ UNCHANGED vvars

\* Only the container changes size (no prop change, no window resize).
ContainerResize(box) ==
    /\ status = "mounted"
    /\ box # boxWidth
    /\ boxWidth' = box
    /\ UNCHANGED <<status, children, columnWidth, isOverflowing, queued, textRef,
                   dom, observers, listeners, effectLive, effectPending,
                   resizeEvent, measured>>
    /\ UNCHANGED vvars

NotificationPending(i) == BoxSize(observers[i].target) # observers[i].last

\* A ResizeObserver reports a size that differs from the one it reported last.
DeliverResize ==
    \E i \in 1..Len(observers) :
        /\ NotificationPending(i)
        /\ observers' = [observers EXCEPT ![i].last = BoxSize(observers[i].target)]
        /\ checkOverflow
        /\ UNCHANGED <<status, children, columnWidth, isOverflowing, textRef, dom,
                       listeners, effectLive, effectPending, boxWidth, resizeEvent>>
        /\ UNCHANGED vvars

\* ==================================================== Ellipsis: unmount

\* The commit that removes the instance: the div leaves the document and the
\* ref is cleared; the effect's cleanup runs later, in the passive phase.
UnmountCommit ==
    /\ status = "mounted"
    /\ ~effectPending
    /\ status' = "unmounting"
    /\ textRef' = Null
    /\ dom' = [dom EXCEPT !.elem = Null]
    /\ queued' = <<>>
    /\ UNCHANGED <<children, columnWidth, isOverflowing, observers, listeners,
                   effectLive, effectPending, boxWidth, resizeEvent, measured>>
    /\ UNCHANGED vvars

EffectCleanup ==
    /\ status = "unmounting"
    /\ status' = "removed"
    /\ observers' = IF effectLive THEN CleanupObservers(observers) ELSE observers
    /\ listeners' = IF effectLive THEN CleanupListeners(listeners) ELSE listeners
    /\ effectLive' = FALSE
    /\ UNCHANGED <<children, columnWidth, isOverflowing, queued, textRef, dom,
                   effectPending, boxWidth, resizeEvent, measured>>
    /\ UNCHANGED vvars

\* ======================================================== table body

RowIds(page, n) == [k \in 1..n |-> page * MaxRows + k]

\* Without measureElement every item keeps the estimated size.
VirtualItem(i) == [index |-> i, start |-> i * EstimateSize, end |-> (i + 1) * EstimateSize]

getTotalSize(count) == count * EstimateSize

\* What getVirtualItems() may return for `count` rows: nothing (no scroll
\* element yet, or no rows) or a contiguous run of items.
VirtualWindows(count) ==
    {<<>>} \cup
    {[k \in 1..(j - i + 1) |-> VirtualItem(i + k - 1)] :
        i \in 0..(count - 1), j \in 0..(count - 1)}

ComputePaddingTop(vr) == IF Len(vr) > 0 THEN vr[1].start ELSE 0

\* faulty variant: the last item's start is subtracted instead of its end
ComputePaddingBottomFromStart(vr, total) ==
    IF Len(vr) > 0 THEN total - vr[Len(vr)].start ELSE 0

ComputePaddingBottom(vr, total) ==
    IF Len(vr) > 0 THEN total - vr[Len(vr)].end ELSE 0

Spacer(h) == IF h > 0 THEN <<[kind |-> "spacer", height |-> h, row |-> 0]>> ELSE <<>>

Tbody(rs, vr, top, bottom) ==
    Spacer(top)
    \o [k \in 1..Len(vr) |-> [kind |-> "row", height |-> 0, row |-> rs[vr[k].index + 1]]]
    \o Spacer(bottom)

\* One render of App's body for the given row list and virtualizer output.
RenderBody(rs, vr) ==
    /\ rows' = rs
    /\ virtualRows' = vr
    /\ totalSize' = getTotalSize(Len(rs))
    /\ paddingTop' = ComputePaddingTop(vr)
    /\ paddingBottom' = ComputePaddingBottom(vr, getTotalSize(Len(rs)))
    /\ tbody' = Tbody(rs, vr, ComputePaddingTop(vr),
                      ComputePaddingBottom(vr, getTotalSize(Len(rs))))

\* The container scrolls (or is measured): the virtualizer reports another window.
Scroll(vr) ==
    /\ vr # virtualRows
    /\ RenderBody(rows, vr)
    /\ UNCHANGED evars

\* Sorting, filtering or paging yields another row list.
SetRows(page, n, vr) ==
    /\ RowIds(page, n) # rows
    /\ RenderBody(RowIds(page, n), vr)
    /\ UNCHANGED evars

\* ===================================================== specifications

EllipsisInit(text, width, box) ==
    /\ status = "mounted"
    /\ children = text
    /\ columnWidth = width
    /\ isOverflowing = FALSE
    /\ queued = <<>>
    /\ textRef = 1
    /\ dom = [elem |-> 1, tooltip |-> Render(FALSE, text).tooltip,
               label |-> Render(FALSE, text).label, text |-> Render(FALSE, text).text]
    /\ observers = <<>>
    /\ listeners = 0
    /\ effectLive = FALSE
    /\ effectPending = TRUE
    /\ boxWidth = box
    /\ resizeEvent = FALSE
    /\ measured = <<>>

\* The first render: the scroll container is not attached yet, nothing is virtualized.
BodyInit(n) ==
    /\ rows = RowIds(0, n)
    /\ virtualRows = <<>>
    /\ totalSize = getTotalSize(n)
    /\ paddingTop = 0
    /\ paddingBottom = 0
    /\ tbody = <<>>

Init ==
    /\ \E text \in Texts, width \in ColumnWidths, box \in Widths :
           EllipsisInit(text, width, box)
    /\ BodyInit(MaxRows)

DragNext ==
    \/ RunEffect
    \/ StateRender
    \/ \E text \in Texts : TextChange(text)
    \/ \E width \in ColumnWidths, box \in Widths : ColumnResize(width, box)
    \/ \E box \in Widths : WindowResize(box)
    \/ DispatchResize
    \/ DeliverResize
    \/ UnmountCommit
    \/ EffectCleanup

Next ==
    \/ DragNext
    \/ \E box \in Widths : ContainerResize(box)

\* The Ellipsis instance under every resize source.
Spec == Init /\ [][Next]_vars

\* The Ellipsis instance when every container resize is a column drag-resize
\* (which changes columnWidth) or a window resize.
SpecDrag == Init /\ [][DragNext]_vars

BodyNext ==
    \/ \E vr \in VirtualWindows(Len(rows)) : Scroll(vr)
    \/ \E page \in 0..MaxPage, n \in 0..MaxRows :
           \E vr \in VirtualWindows(n) : SetRows(page, n, vr)

InitBody ==
    /\ EllipsisInit(<<>>, 1, 0)
    /\ \E n \in 0..MaxRows : BodyInit(n)

\* The table body under scrolling and row-list changes.
SpecBody == InitBody /\ [][BodyNext]_vars

\* ============================================================= claims

\* The state the next render will show.
EffectiveState == IF queued # <<>> THEN queued[1] ELSE isOverflowing

\* C1: once checkOverflow has read (scrollWidth, clientWidth) and the component
\* has re-rendered, scrollWidth <= clientWidth means the text is rendered alone
\* (no Tooltip, no label), and scrollWidth > clientWidth means the text is
\* wrapped in a Tooltip whose label is exactly the children shown in the div.
TooltipMatchesMeasurement ==
    (status = "mounted" /\ measured # <<>> /\ queued = <<>>) =>
        /\ measured[1] <= measured[2] => (~dom.tooltip /\ dom.label = <<>>)
        /\ measured[1] > measured[2] =>
               (dom.tooltip /\ dom.label = <<children>> /\ dom.text = children)

\* C1 witness: a measured overflow has been rendered as a Tooltip around the text.
TooltipShownForOverflow ==
    /\ status = "mounted"
    /\ queued = <<>>
    /\ measured # <<>>
    /\ measured[1] > measured[2]
    /\ dom.tooltip
    /\ dom.label = <<children>>
    /\ Len(children) > 0

\* Nothing is left to process: no scheduled effect, no queued state update, no
\* undispatched window resize, no ResizeObserver notification due.
Quiescent ==
    /\ status = "mounted"
    /\ ~effectPending
    /\ queued = <<>>
    /\ ~resizeEvent
    /\ \A i \in 1..Len(observers) : ~NotificationPending(i)

\* C2: after any sequence of column drag-resizes, window resizes and text
\* changes, once everything pending has been processed the Tooltip is present
\* if and only if the element's current scrollWidth exceeds its clientWidth.
NoStaleTooltip ==
    Quiescent => (dom.tooltip <=> ScrollWidth(textRef) > ClientWidth(textRef))

\* C2 witness: the Tooltip was added and removed again (the element was replaced
\* twice, so the observer's target is no longer the current div) and the text fits.
TooltipRemovedAfterResizeBack ==
    /\ Quiescent
    /\ ~dom.tooltip
    /\ measured # <<>>
    /\ Len(observers) = 1
    /\ observers[1].target # dom.elem
    /\ Len(children) > 0

\* C3: while mounted the instance holds at most one live ResizeObserver and one
\* live window listener; once it has been removed (its cleanup has run) it
\* holds none.
NoObserverLeak ==
    /\ status = "mounted" => (Len(observers) <= 1 /\ listeners <= 1)
    /\ status = "removed" => (Len(observers) = 0 /\ listeners = 0)

\* C3 witness: an instance that registered, measured an overflow and rendered the
\* Tooltip has been removed.
RemovedAfterUse ==
    /\ status = "removed"
    /\ measured # <<>>
    /\ dom.tooltip
    /\ ~effectLive

\* A step that runs checkOverflow.
Measures == RunEffect \/ (DispatchResize /\ listeners > 0) \/ DeliverResize

ZeroSized(e) == ScrollWidth(e) = 0 /\ ClientWidth(e) = 0

\* C4: the instance starts not overflowing; a measurement that finds no element
\* behind textRef leaves the state as it is, and a measurement of an element
\* whose scrollWidth and clientWidth are both zero puts it in the
\* not-overflowing state.
NoFalseOverflow ==
    /\ ~isOverflowing
    /\ [][Measures =>
            /\ textRef = Null => UNCHANGED <<isOverflowing, queued>>
            /\ (textRef # Null /\ ZeroSized(textRef)) => ~EffectiveState']_vars

\* C4 witness: a zero-sized element has been measured and the instance fits.
ZeroSizedMeasured ==
    /\ status = "mounted"
    /\ measured = <<0, 0>>
    /\ queued = <<>>
    /\ ~isOverflowing

\* C8: the body renders exactly the rows of the window the virtualizer reports,
\* in order, each index valid for the current rows; the top spacer, the extent
\* of the window and the bottom spacer add up to the total size; with an empty
\* window both spacers are 0.
SpacersFillTotalSize ==
    LET n    == Len(virtualRows)
        top  == IF paddingTop > 0 THEN 1 ELSE 0
        trs  == SubSeq(tbody, top + 1, top + n)
    IN /\ \A k \in 1..n :
              /\ virtualRows[k].index \in 0..(Len(rows) - 1)
              /\ virtualRows[k].index = virtualRows[1].index + k - 1
       /\ Len(tbody) = top + n + (IF paddingBottom > 0 THEN 1 ELSE 0)
       /\ \A k \in 1..n :
              trs[k].kind = "row" /\ trs[k].row = rows[virtualRows[k].index + 1]
       /\ paddingTop > 0 =>
              (tbody[1].kind = "spacer" /\ tbody[1].height = paddingTop)
       /\ paddingBottom > 0 =>
              (tbody[Len(tbody)].kind = "spacer"
               /\ tbody[Len(tbody)].height = paddingBottom)
       /\ n > 0 =>
              paddingTop + (virtualRows[n].end - virtualRows[1].start)
                  + paddingBottom = totalSize
       /\ n = 0 => (paddingTop = 0 /\ paddingBottom = 0)

\* C8 witness: a window strictly inside the row list, with a spacer on each side.
WindowWithBothSpacers ==
    /\ Len(virtualRows) > 1
    /\ paddingTop > 0
    /\ paddingBottom > 0
    /\ Len(tbody) = Len(virtualRows) + 2

\* C10: whenever the instance is mounted and its effect has run, the
\* ResizeObserver it holds observes the element textRef currently references.
ObserverFollowsTextRef ==
    (status = "mounted" /\ effectLive /\ ~effectPending) =>
        (Len(observers) = 1 /\ observers[1].target = textRef)

====
